---- MODULE Spec2Model ----
(***************************************************************************)
(* WeatherParticleSystem of src/src/main.ts: a fixed pool of particle      *)
(* records, an accumulator-driven emitter, per-particle ageing and physics *)
(* and the compaction of the live particles into the instanced mesh.       *)
(*                                                                         *)
(* Numbers.  The program computes in floating point; the model computes    *)
(* exactly, in integers.  Time is counted in ticks, TicksPerSecond ticks   *)
(* to the second, so that the frame clamp of 0.1 s is MaxDt ticks and the  *)
(* emission interval 1.0 / max(1, emissionRate) is a whole number of ticks *)
(* for every rate of Rates.  Lengths are in an arbitrary unit, velocities  *)
(* in units per tick.  Speeds are even, so that speed * 0.5 is exact.      *)
(* Scales are kept in hundredths (size * 0.08 is 8 * size hundredths).     *)
(*                                                                         *)
(* update() is modelled in its three phases, with pc the position inside   *)
(* the call: the accumulator update (UpdateBegin), one step per iteration  *)
(* of the emission loop (EmitStep, EmitExit) and the loop over the pool    *)
(* (Simulate).  The program is single threaded: updateConfig runs only     *)
(* between two calls of update (pc = "idle").                              *)
(*                                                                         *)
(* Inputs.  Every frame lasts 1..MaxDt ticks (the animation frame callback *)
(* runs once per displayed frame, so dt > 0).  The objects updateConfig is *)
(* called with are drawn from a set per specification: Spec follows the    *)
(* panel between rain and a clear sky, SpecShape the changes of type, size *)
(* and speed under precipitation, SpecMotion those of wind, gravity and    *)
(* lifetime, SpecRate a run under a fixed rate, SpecCalm the panel with    *)
(* the clear periods followed, SpecCaller a caller passing negative rates  *)
(* and lifetimes, SpecCallerFair and SpecSkyFair updates that run to their *)
(* end, SpecFall one raindrop at 60 frames a second.                       *)
(*                                                                         *)
(* calm, regenerated, born, frame and ledger are history variables: the    *)
(* program has no such fields, they record what was emitted and when.      *)
(***************************************************************************)
EXTENDS Integers, Sequences, FiniteSets, TLC

(* ------------------------------ bounds -------------------------------- *)

\* const maxParticles = 10000, scaled down
maxParticles == 2

\* longest run of simulated time (ticks) the emission ledger follows
MaxWindow == 22

\* longest clear period (ticks) whose length is told apart
MaxCalm == 2

(* --------------------------- units, inputs ---------------------------- *)

\* the 1.0 of "1.0 / Math.max(1, emissionRate)": one second, in ticks
TicksPerSecond == 20

\* the 0.1 of "Math.min((now - lastTime)/1000, 0.1)": 0.1 s, in ticks
MaxDt == 2

Slots == 1..maxParticles

WeatherTypes == {"rain", "snow", "clear"}

Rates == {0, 10, 20}
Lifetimes == {2, 3}
Sizes == {1, 2}
Speeds == {2, 4}
Winds == {0, 1}
Gravities == {-2, -1}

Cameras == {"perspective"}

\* emitterVolume: Box3((-60, 30, -60), (60, 45, 60)); the points randFloat
\* may return, the y range strictly above the ground plane y = 0
EmitterX == {0}
EmitterY == {4, 12}
EmitterZ == {0}

EmitterPoints == [x : EmitterX, y : EmitterY, z : EmitterZ]

Max(a, b) == IF a >= b THEN a ELSE b

Min(a, b) == IF a <= b THEN a ELSE b

Vec(a, b, c) == [x |-> a, y |-> b, z |-> c]

VARIABLES
  particles,     \* this.particles: the pool, slot -> Particle
  config,        \* this.config
  accumulator,   \* this.accumulator
  count,         \* this.particleMesh.count
  written,       \* the entries of instanceMatrix set by the last update()
  pc,            \* position inside update(): "idle", "loop", "particles"
  dt,            \* the dt argument of the running update()
  tempQuaternion,\* this.tempQuaternion: the camera orientation last copied
  material,      \* this.material: its texture (map) and base colour
  calm,          \* history: the clear period in progress or just ended
  regenerated,   \* history: generateTexture() calls of the last updateConfig()
  born,          \* history: per slot, what the last emission into it gave it
  frame,         \* history: emission events of the current / last update()
  ledger         \* history: emission events and time under a fixed rate

vars == <<particles, config, accumulator, count, written, pc, dt,
          tempQuaternion, material, calm, regenerated, born, frame, ledger>>

(* ------------------------------ helpers ------------------------------- *)

\* the record the constructor pushes maxParticles times
NewParticle ==
  [position |-> Vec(0, 0, 0), velocity |-> Vec(0, 0, 0),
   life |-> 0, maxLife |-> 0, size |-> 0, active |-> FALSE]

\* the weatherConfig the application constructs the system with: the clear
\* preset, emissionRate 0 (lifetime, size, speed, windStrength and gravity in
\* the model's units)
InitialConfig ==
  [emissionRate |-> 0, lifetime |-> 3, size |-> 1, speed |-> 4,
   windStrength |-> 1, gravity |-> -1, type |-> "clear"]

ConfigFields == DOMAIN InitialConfig

FieldValues(f) ==
  CASE f = "emissionRate" -> Rates
    [] f = "lifetime"     -> Lifetimes
    [] f = "size"         -> Sizes
    [] f = "speed"        -> Speeds
    [] f = "windStrength" -> Winds
    [] f = "gravity"      -> Gravities
    [] f = "type"         -> WeatherTypes

\* Partial<ParticleConfig> objects with the one field f
PartialsOn(f) == {[g \in {f} |-> v] : v \in FieldValues(f)}

\* what the control panel sends between rain and a clear sky: the weather
\* selector (the type with the preset rate of that type), the type alone and
\* the density slider
PanelPartials ==
  {[type |-> "rain", emissionRate |-> 20],
   [type |-> "clear", emissionRate |-> 0]}
  \cup {[type |-> t] : t \in {"rain", "clear"}}
  \cup PartialsOn("emissionRate")

\* changes of the look of the precipitation while it falls
ShapePartials ==
  {[type |-> t] : t \in {"rain", "snow"}}
  \cup PartialsOn("size") \cup PartialsOn("speed")
  \cup {[type |-> t, speed |-> sp, size |-> sz] :
          t \in {"rain", "snow"}, sp \in Speeds, sz \in Sizes}

\* changes of the motion and the life of the precipitation while it falls
MotionPartials ==
  PartialsOn("windStrength") \cup PartialsOn("lifetime")
  \cup PartialsOn("gravity")
  \cup {[windStrength |-> w, gravity |-> g] : w \in Winds, g \in Gravities}

\* as ObjectAssign, the fields source lacks falling back to the defaults
ObjectAssignDefaults(target, source) ==
  [f \in DOMAIN target |->
     IF f \in DOMAIN source THEN source[f] ELSE InitialConfig[f]]

\* Object.assign(target, source)
ObjectAssign(target, source) ==
  [f \in DOMAIN target |->
     IF f \in DOMAIN source THEN source[f] ELSE target[f]]

\* generateTexture(): the gradient depends on config.type being rain or not
generateTexture(cfg) == IF cfg.type = "rain" THEN "rainGradient" ELSE "softGradient"

\* as Interval, the rate floored at one half
IntervalHalfFloor(cfg) ==
  IF cfg.emissionRate >= 1 THEN TicksPerSecond \div cfg.emissionRate
  ELSE 2 * TicksPerSecond

\* 1.0 / Math.max(1, this.config.emissionRate), in ticks
Interval(cfg) == TicksPerSecond \div Max(1, cfg.emissionRate)

\* x * 0.5, for the even x the model uses
Half(x) == x \div 2

ActiveSlots(ps) == {s \in Slots : ps[s].active}
FreeSlots(ps) == {s \in Slots : ~ps[s].active}

\* this.particles.find(pt => !pt.active): the first free slot in pool order
FirstFree(ps) == CHOOSE s \in FreeSlots(ps) : \A t \in FreeSlots(ps) : s <= t

\* as EmitVelocity, snow falling at the full speed
EmitVelocityFull(cfg) == Vec(0, -cfg.speed, 0)

\* the velocity emitParticle sets
EmitVelocity(cfg) ==
  IF cfg.type = "rain" THEN Vec(0, -cfg.speed, 0)
  ELSE Vec(0, -Half(cfg.speed), 0)

\* as emitParticle, a full pool recycling its first slot
emitParticleRecycle(ps, cfg, pt) ==
  LET s == IF FreeSlots(ps) = {} THEN 1 ELSE FirstFree(ps)
  IN  [ps EXCEPT ![s] =
         [@ EXCEPT !.active = TRUE,
                   !.position = pt,
                   !.life = cfg.lifetime,
                   !.size = cfg.size,
                   !.velocity = EmitVelocity(cfg)]]

\* emitParticle(), pt the point the three randFloat calls return
emitParticle(ps, cfg, pt) ==
  IF FreeSlots(ps) = {} THEN ps
  ELSE [ps EXCEPT ![FirstFree(ps)] =
          [@ EXCEPT !.active = TRUE,
                    !.position = pt,
                    !.life = cfg.lifetime,
                    !.size = cfg.size,
                    !.velocity = EmitVelocity(cfg)]]

\* p.life -= dt
Age(p, d) == [p EXCEPT !.life = @ - d]

\* as Integrate, the wind accelerating the particle
IntegrateAccumulate(p, cfg, d) ==
  LET v == [p.velocity EXCEPT !.y = @ + cfg.gravity * d,
                              !.x = @ + cfg.windStrength * d]
  IN  [p EXCEPT !.velocity = v,
                !.position = Vec(@.x + v.x * d, @.y + v.y * d, @.z + v.z * d)]

\* as Integrate, without the pull of gravity
IntegrateNoGravity(p, cfg, d) ==
  LET v == [p.velocity EXCEPT !.x = cfg.windStrength]
  IN  [p EXCEPT !.velocity = v,
                !.position = Vec(@.x + v.x * d, @.y + v.y * d, @.z + v.z * d)]

\* velocity.y += gravity * dt; velocity.x = windStrength;
\* position.addScaledVector(velocity, dt)
Integrate(p, cfg, d) ==
  LET v == [p.velocity EXCEPT !.y = @ + cfg.gravity * d,
                              !.x = cfg.windStrength]
  IN  [p EXCEPT !.velocity = v,
                !.position = Vec(@.x + v.x * d, @.y + v.y * d, @.z + v.z * d)]

\* as Expired, a particle retired only once its life is below zero
ExpiredLate(p) == p.position.y < 0 \/ p.life < 0

\* as Expired, without the ground plane
ExpiredLifeOnly(p) == p.life <= 0

\* if (p.position.y < 0 || p.life <= 0)
Expired(p) == p.position.y < 0 \/ p.life <= 0

\* tempScale, in hundredths
Scale(p, cfg) ==
  IF cfg.type = "rain" THEN Vec(p.size * 8, p.size * 600, 100)
  ELSE Vec(p.size * 100, p.size * 100, 100)

\* tempMatrix.compose(tempPosition, tempQuaternion, tempScale); slot is
\* history: the pool slot the matrix was composed for
Matrix(p, cfg, q, s) ==
  [position |-> p.position, quaternion |-> q, scale |-> Scale(p, cfg),
   slot |-> s]

\* as StepParticle, the retirement test made before ageing and integrating
StepParticleCheckFirst(p, cfg, d) ==
  IF Expired(p) THEN [p |-> [p EXCEPT !.active = FALSE], draw |-> FALSE]
  ELSE [p |-> Integrate(Age(p, d), cfg, d), draw |-> TRUE]

\* as StepParticle, the matrix written for a particle that has just expired
StepParticleDrawAll(p, cfg, d) ==
  LET q == Integrate(Age(p, d), cfg, d)
  IN  IF Expired(q) THEN [p |-> [q EXCEPT !.active = FALSE], draw |-> TRUE]
      ELSE [p |-> q, draw |-> TRUE]

\* one iteration of "for (const p of this.particles)" on an active particle:
\* the particle after it, and whether its matrix is written
StepParticle(p, cfg, d) ==
  LET q == Integrate(Age(p, d), cfg, d)
  IN  IF Expired(q) THEN [p |-> [q EXCEPT !.active = FALSE], draw |-> FALSE]
      ELSE [p |-> q, draw |-> TRUE]

\* the loop over the pool from slot s on: ps the pool so far, out the
\* matrices set so far (setMatrixAt(activeCount, ...); activeCount++)
RECURSIVE Walk(_, _, _, _, _, _)
Walk(s, ps, out, cfg, d, q) ==
  IF s > maxParticles THEN [particles |-> ps, written |-> out]
  ELSE IF ~ps[s].active THEN Walk(s + 1, ps, out, cfg, d, q)
  ELSE LET r == StepParticle(ps[s], cfg, d)
       IN  Walk(s + 1, [ps EXCEPT ![s] = r.p],
                IF r.draw THEN Append(out, Matrix(r.p, cfg, q, s)) ELSE out,
                cfg, d, q)

NoBirth == [life |-> 0, age |-> 0, type |-> "none"]
LedgerOff == [on |-> FALSE, time |-> 0, events |-> 0]

(* ------------------------------- states ------------------------------- *)

\* no clear period in progress or just ended
CalmOff == [phase |-> "off", acc |-> 0, time |-> 0]

\* the clear periods not followed
CalmUntracked == [phase |-> "untracked", acc |-> 0, time |-> 0]

\* the clear period as a call update(d, camera) leaves it: "clear" while
\* updates run under a clear sky, acc the accumulator the period began with
\* and time its length so far; "resumed" during the first update after it
CalmAfter(d) ==
  IF calm.phase = "untracked" THEN calm
  ELSE IF config.type = "clear"
  THEN IF calm.phase = "clear"
       THEN [calm EXCEPT !.time = Min(MaxCalm, @ + d)]
       ELSE [phase |-> "clear", acc |-> accumulator, time |-> Min(MaxCalm, d)]
  ELSE IF calm.phase = "clear"
       THEN [calm EXCEPT !.phase = "resumed"]
       ELSE CalmOff

TypeOK ==
  /\ pc \in {"idle", "loop", "particles"}
  /\ DOMAIN particles = Slots
  /\ DOMAIN config = ConfigFields
  /\ count \in 0..maxParticles
  /\ dt \in 0..MaxDt

\* the state the constructor leaves: InstancedMesh(geometry, material,
\* maxParticles) starts with count = maxParticles
InitCommon ==
  /\ particles = [s \in Slots |-> NewParticle]
  /\ accumulator = 0
  /\ count = maxParticles
  /\ written = <<>>
  /\ pc = "idle"
  /\ dt = 0
  /\ tempQuaternion = "identity"
  /\ regenerated = 0
  /\ born = [s \in Slots |-> NoBirth]
  /\ frame = [emitted |-> 0, dropped |-> 0]

Init ==
  /\ InitCommon
  /\ config = InitialConfig
  /\ material = [map |-> generateTexture(InitialConfig), color |-> "ffffff"]
  /\ ledger = LedgerOff
  /\ calm = CalmUntracked

(* ------------------------------ actions ------------------------------- *)

\* as TypeChanged, without the comparison to the old type
TypePresent(newConfig, oldType) == "type" \in DOMAIN newConfig

\* if (newConfig.type && newConfig.type !== oldType): every WeatherType is a
\* non-empty string, so newConfig.type is truthy exactly when it is present
TypeChanged(newConfig, oldType) ==
  "type" \in DOMAIN newConfig /\ newConfig.type # oldType

\* updateConfig(newConfig)
UpdateConfig(newConfig) ==
  /\ pc = "idle"
  /\ LET oldType == config.type
         merged == ObjectAssign(config, newConfig)
     IN  /\ config' = merged
         /\ IF TypeChanged(newConfig, oldType)
            THEN /\ material' =
                      [map |-> generateTexture(merged),
                       color |-> IF merged.type = "rain"
                                 THEN "aaddff" ELSE "ffffff"]
                 /\ regenerated' = 1
            ELSE /\ material' = material
                 /\ regenerated' = 0
  /\ ledger' = IF /\ ObjectAssign(config, newConfig).type = config.type
                  /\ ObjectAssign(config, newConfig).emissionRate
                       = config.emissionRate
               THEN ledger ELSE LedgerOff
  /\ UNCHANGED <<particles, accumulator, count, written, pc, dt,
                 tempQuaternion, calm, born, frame>>

\* as UpdateBegin, the accumulator taking dt under a clear sky too
UpdateBeginAlways(d) ==
  /\ pc = "idle"
  /\ dt' = d
  /\ frame' = [emitted |-> 0, dropped |-> 0]
  /\ regenerated' = 0
  /\ calm' = CalmAfter(d)
  /\ pc' = IF config.type = "clear" THEN "particles" ELSE "loop"
  /\ accumulator' = accumulator + d
  /\ ledger' = LedgerOff
  /\ UNCHANGED <<particles, config, count, written, tempQuaternion,
                 material, born>>

\* as UpdateBegin, the emission block entered whatever the type
UpdateBeginNoClear(d) ==
  /\ pc = "idle"
  /\ dt' = d
  /\ frame' = [emitted |-> 0, dropped |-> 0]
  /\ regenerated' = 0
  /\ calm' = CalmAfter(d)
  /\ pc' = "loop"
  /\ accumulator' = accumulator + d
  /\ ledger' = IF ledger.on /\ ledger.time + d <= MaxWindow
               THEN [ledger EXCEPT !.time = @ + d]
               ELSE LedgerOff
  /\ UNCHANGED <<particles, config, count, written, tempQuaternion,
                 material, born>>

\* as UpdateBegin, the accumulator reset under a clear sky
UpdateBeginReset(d) ==
  /\ pc = "idle"
  /\ dt' = d
  /\ frame' = [emitted |-> 0, dropped |-> 0]
  /\ regenerated' = 0
  /\ calm' = CalmAfter(d)
  /\ IF config.type = "clear"
     THEN /\ pc' = "particles"
          /\ accumulator' = 0
          /\ ledger' = LedgerOff
     ELSE /\ pc' = "loop"
          /\ accumulator' = accumulator + d
          /\ ledger' = IF ledger.on /\ ledger.time + d <= MaxWindow
                       THEN [ledger EXCEPT !.time = @ + d]
                       ELSE LedgerOff
  /\ UNCHANGED <<particles, config, count, written, tempQuaternion,
                 material, born>>

\* update(dt, camera), lines 205-209: the accumulator takes dt unless clear
UpdateBegin(d) ==
  /\ pc = "idle"
  /\ dt' = d
  /\ frame' = [emitted |-> 0, dropped |-> 0]
  /\ regenerated' = 0
  /\ calm' = CalmAfter(d)
  /\ IF config.type = "clear"
     THEN /\ pc' = "particles"
          /\ accumulator' = accumulator
          /\ ledger' = LedgerOff
     ELSE /\ pc' = "loop"
          /\ accumulator' = accumulator + d
          /\ ledger' = IF ledger.on /\ ledger.time + d <= MaxWindow
                       THEN [ledger EXCEPT !.time = @ + d]
                       ELSE LedgerOff
  /\ UNCHANGED <<particles, config, count, written, tempQuaternion,
                 material, born>>

\* as EmitStep, an event that finds no free slot left pending: the
\* accumulator keeps its interval
EmitStepRetry(pt) ==
  /\ pc = "loop"
  /\ accumulator >= Interval(config)
  /\ particles' = emitParticle(particles, config, pt)
  /\ accumulator' = IF FreeSlots(particles) = {} THEN accumulator
                    ELSE accumulator - Interval(config)
  /\ born' = IF FreeSlots(particles) = {} THEN born
             ELSE [born EXCEPT ![FirstFree(particles)] =
                     [life |-> config.lifetime, age |-> 0,
                      type |-> config.type]]
  /\ frame' = [emitted |-> frame.emitted + 1,
               dropped |-> frame.dropped +
                             (IF FreeSlots(particles) = {} THEN 1 ELSE 0)]
  /\ ledger' = IF ledger.on THEN [ledger EXCEPT !.events = @ + 1] ELSE ledger
  /\ UNCHANGED <<config, count, written, pc, dt, tempQuaternion, material,
                 calm, regenerated>>

\* one iteration of "while (this.accumulator >= interval)"
EmitStep(pt) ==
  /\ pc = "loop"
  /\ accumulator >= Interval(config)
  /\ particles' = emitParticle(particles, config, pt)
  /\ accumulator' = accumulator - Interval(config)
  /\ born' = IF FreeSlots(particles) = {} THEN born
             ELSE [born EXCEPT ![FirstFree(particles)] =
                     [life |-> config.lifetime, age |-> 0,
                      type |-> config.type]]
  /\ frame' = [emitted |-> frame.emitted + 1,
               dropped |-> frame.dropped +
                             (IF FreeSlots(particles) = {} THEN 1 ELSE 0)]
  /\ ledger' = IF ledger.on THEN [ledger EXCEPT !.events = @ + 1] ELSE ledger
  /\ UNCHANGED <<config, count, written, pc, dt, tempQuaternion, material,
                 calm, regenerated>>

\* the emission loop ends
EmitExit ==
  /\ pc = "loop"
  /\ accumulator < Interval(config)
  /\ pc' = "particles"
  /\ UNCHANGED <<particles, config, accumulator, count, written, dt,
                 tempQuaternion, material, calm, regenerated, born, frame,
                 ledger>>

\* lines 216-247: the loop over the pool, the instance count
Simulate(cam) ==
  /\ pc = "particles"
  /\ LET r == Walk(1, particles, <<>>, config, dt, cam)
     IN  /\ particles' = r.particles
         /\ written' = r.written
         /\ count' = Len(r.written)
  /\ tempQuaternion' = cam
  /\ born' = [s \in Slots |->
                IF particles[s].active
                THEN [born[s] EXCEPT !.age = @ + dt] ELSE born[s]]
  /\ pc' = "idle"
  /\ dt' = 0
  /\ UNCHANGED <<config, accumulator, material, calm, regenerated, frame,
                 ledger>>

\* getCount(): return this.particleMesh.count
getCount == count

\* the steps of the program, with P the objects updateConfig is called with
Step(P) ==
  \/ \E newConfig \in P : UpdateConfig(newConfig)
  \/ \E d \in 1..MaxDt : UpdateBegin(d)
  \/ \E pt \in EmitterPoints : EmitStep(pt)
  \/ EmitExit
  \/ \E cam \in Cameras : Simulate(cam)

Next == Step(PanelPartials)

Spec == Init /\ [][Next]_vars

\* the system as constructed, the clear periods followed
InitCalm ==
  /\ InitCommon
  /\ config = InitialConfig
  /\ material = [map |-> generateTexture(InitialConfig), color |-> "ffffff"]
  /\ ledger = LedgerOff
  /\ calm = CalmOff

SpecCalm == InitCalm /\ [][Next]_vars

\* the system after the panel chose rain before the first frame
InitShape ==
  /\ InitCommon
  /\ config = [InitialConfig EXCEPT !.type = "rain", !.emissionRate = 10]
  /\ material = [map |-> generateTexture(config), color |-> "aaddff"]
  /\ ledger = LedgerOff
  /\ calm = CalmUntracked

NextShape == Step(ShapePartials)

SpecShape == InitShape /\ [][NextShape]_vars

NextMotion == Step(MotionPartials)

SpecMotion == InitShape /\ [][NextMotion]_vars

\* the system running under a fixed non-clear type and a fixed emission
\* rate from an accumulator of 0, the ledger open
InitRate ==
  /\ InitCommon
  /\ \E r \in Rates, t \in {"rain", "snow"} :
       config = [InitialConfig EXCEPT !.type = t, !.emissionRate = r]
  /\ material = [map |-> generateTexture(config),
                 color |-> IF config.type = "rain" THEN "aaddff" ELSE "ffffff"]
  /\ ledger = [on |-> TRUE, time |-> 0, events |-> 0]
  /\ calm = CalmUntracked

RatePartials == PartialsOn("size")

NextRate == Step(RatePartials)

SpecRate == InitRate /\ [][NextRate]_vars

\* objects a caller of the public updateConfig may pass: the method takes
\* any number for emissionRate and lifetime, negative ones included
CallerRates == {[emissionRate |-> r] : r \in {-10, 0, 20}}

CallerPartials == CallerRates \cup {[lifetime |-> l] : l \in {-1, 3}}

NextCaller == Step(CallerPartials)

SpecCaller == InitShape /\ [][NextCaller]_vars

NextCallerRates == Step(CallerRates)

\* a call of update runs to its end: the loop takes its next iteration or
\* leaves, the pool is walked and the call returns
SpecCallerFair ==
  /\ InitShape /\ [][NextCallerRates]_vars
  /\ WF_vars(\E pt \in EmitterPoints : EmitStep(pt))
  /\ WF_vars(EmitExit)
  /\ WF_vars(\E cam \in Cameras : Simulate(cam))

\* the type selector of the panel, between rain and a clear sky
SkyPartials == {[type |-> t] : t \in {"rain", "clear"}}

NextSky == Step(SkyPartials)

\* animate() requests its next frame on every call, so update keeps being
\* called and every call runs to its end
SpecSkyFair ==
  /\ InitShape /\ [][NextSky]_vars
  /\ WF_vars(\E d \in 1..MaxDt : UpdateBegin(d))
  /\ WF_vars(\E pt \in EmitterPoints : EmitStep(pt))
  /\ WF_vars(EmitExit)
  /\ WF_vars(\E cam \in Cameras : Simulate(cam))

\* The fall of one raindrop at 60 frames a second.  Here a tick is 1/60 s
\* and the unit of length 1/36000 m, which makes every product of the
\* integration exact: lifetime 2 s is 120 ticks, speed 18 m/s is 10800 units
\* a tick, windStrength 0.5 m/s is 300, gravity -9.8 m/s^2 is -98 units a
\* tick squared.
FallConfig ==
  [emissionRate |-> 2500, lifetime |-> 120, size |-> 1, speed |-> 10800,
   windStrength |-> 300, gravity |-> -98, type |-> "rain"]

\* heights of the emitter volume: 30, 35, 40 and 45 m
FallHeights == {1080000, 1260000, 1440000, 1620000}

\* dt = 1/60 s
FrameTick == 1

\* the drop emitted by an update of FrameTick under FallConfig, as the update
\* leaves it; the panel has then set a clear sky, so that no drop joins it
InitFall ==
  \E h \in FallHeights :
    LET pool == [s \in Slots |-> NewParticle]
        emitted == emitParticle(pool, FallConfig, Vec(0, h, 0))
        r == Walk(1, emitted, <<>>, FallConfig, FrameTick, "perspective")
    IN  /\ particles = r.particles
        /\ written = r.written
        /\ count = Len(r.written)
        /\ config = [FallConfig EXCEPT !.type = "clear"]
        /\ material = [map |-> generateTexture(config), color |-> "ffffff"]
        /\ accumulator = 0
        /\ pc = "idle"
        /\ dt = 0
        /\ tempQuaternion = "perspective"
        /\ calm = CalmUntracked
        /\ regenerated = 1
        /\ born = [s \in Slots |->
                     IF s = 1
                     THEN [life |-> FallConfig.lifetime, age |-> FrameTick,
                           type |-> "rain"]
                     ELSE NoBirth]
        /\ frame = [emitted |-> 1, dropped |-> 0]
        /\ ledger = LedgerOff

NextFall ==
  \/ UpdateBegin(FrameTick)
  \/ \E cam \in Cameras : Simulate(cam)

SpecFall == InitFall /\ [][NextFall]_vars

(* ------------------------------- claims ------------------------------- *)

ActiveCount(ps) == Cardinality(ActiveSlots(ps))

\* the step that ends a call of update()
UpdateReturns == pc = "particles" /\ pc' = "idle"

\* a step of the emission loop that requests one emission
EmissionEvent == pc = "loop" /\ frame'.emitted = frame.emitted + 1

\* C1: when update() returns, the instance count of the mesh and the number
\* of matrices written in the call both equal the number of active slots.
C1_CountIsActive ==
  [][UpdateReturns =>
       /\ count' = ActiveCount(particles')
       /\ Len(written') = ActiveCount(particles')]_vars

\* C1 witness: update() has returned with part of the pool active, the
\* first slot free (the active slots are sparse in the pool)
C1_Witness ==
  /\ pc = "idle"
  /\ count = 1
  /\ Len(written) = 1
  /\ ~particles[1].active
  /\ particles[2].active

\* C2: the pool keeps its maxParticles slots, never more of them active, and
\* an emission event that finds every slot active changes no slot.
C2_FullPoolUntouched ==
  [][/\ DOMAIN particles' = Slots
     /\ ActiveCount(particles') <= maxParticles
     /\ (EmissionEvent /\ FreeSlots(particles) = {}) =>
          /\ particles' = particles
          /\ ActiveCount(particles') = maxParticles]_vars

\* C2 witness: inside the emission loop, an event has just been dropped on a
\* full pool
C2_Witness ==
  /\ pc = "loop"
  /\ frame.dropped > 0
  /\ FreeSlots(particles) = {}

\* C3: while the type is clear no step of update() makes a free slot active
\* and none changes the accumulator.
C3_ClearEmitsNothing ==
  [][config.type = "clear" =>
       /\ accumulator' = accumulator
       /\ \A s \in Slots : ~particles[s].active => ~particles'[s].active]_vars

\* C3 witness: update() is running under a clear sky with dt > 0, the
\* accumulator holding a remainder, a slot free, past the emission phase
C3_Witness ==
  /\ config.type = "clear"
  /\ pc = "particles"
  /\ dt > 0
  /\ accumulator > 0
  /\ frame.emitted = 0
  /\ FreeSlots(particles) # {}
  /\ ActiveSlots(particles) # {}

\* C4: under a fixed rate R and a non-clear type, from an accumulator of 0,
\* the emission events counted over the elapsed time T differ from R * T by
\* less than one particle, whenever the emission loop is not running.
C4_EventsTrackRate ==
  (ledger.on /\ pc # "loop") =>
    LET diff == ledger.events * TicksPerSecond
                  - config.emissionRate * ledger.time
    IN  -TicksPerSecond < diff /\ diff < TicksPerSecond

\* C5: between frames a particle emitted with life L is active only while
\* less than L has elapsed for it, its remaining life being L less the time
\* elapsed, and a slot retired above the ground has seen L or more elapse.
C5_LifetimeExact ==
  pc = "idle" =>
    \A s \in Slots :
      born[s].type # "none" =>
        /\ particles[s].active =>
             /\ born[s].age < born[s].life
             /\ particles[s].life = born[s].life - born[s].age
        /\ (~particles[s].active /\ particles[s].position.y >= 0) =>
             born[s].age >= born[s].life

\* C5 witness: between frames, one particle is alive part of its life and
\* another has been retired above the ground, exactly at the end of its life
C5_Witness ==
  /\ pc = "idle"
  /\ \E s \in Slots :
       /\ particles[s].active
       /\ born[s].age > 0
       /\ born[s].life = 3
  /\ \E s \in Slots :
       /\ ~particles[s].active
       /\ born[s].type # "none"
       /\ particles[s].position.y >= 0
       /\ born[s].age >= born[s].life

\* C6: no state holds an active particle below the ground plane.
C6_NoActiveBelowGround ==
  \A s \in Slots : particles[s].active => particles[s].position.y >= 0

\* C6 witness: update() has returned and a slot it retired lies below the
\* ground with life left
C6_Witness ==
  /\ pc = "idle"
  /\ \E s \in Slots :
       /\ ~particles[s].active
       /\ particles[s].position.y < 0
       /\ particles[s].life > 0

\* C7: when update() returns, the matrices written are those of the slots
\* still active, in pool order, each at the position the particle has after
\* ageing and integrating, which passed the retirement test; a particle
\* retired in the call has no matrix and is not counted.
C7_RetiredNotDrawn ==
  [][UpdateReturns =>
       /\ \A s \in Slots :
            (particles[s].active /\ ~particles'[s].active) =>
              \A i \in 1..Len(written') : written'[i].slot # s
       /\ \A i \in 1..Len(written') :
            LET s == written'[i].slot
            IN  /\ particles[s].active
                /\ particles'[s].active
                /\ particles'[s].life = particles[s].life - dt
                /\ particles'[s].life > 0
                /\ written'[i].position = particles'[s].position
                /\ written'[i].position.y >= 0
       /\ \A i, j \in 1..Len(written') :
            i < j => written'[i].slot < written'[j].slot
       /\ count' = Len(written')]_vars

\* C7 witness: update() has returned, one particle retired in that call
\* (its life used up) next to one that was drawn
C7_Witness ==
  /\ pc = "idle"
  /\ Len(written) = 1
  /\ \E s \in Slots :
       /\ ~particles[s].active
       /\ born[s].type # "none"
       /\ particles[s].life <= 0
       /\ written[1].slot # s

\* C8: a matrix written for a particle emitted as rain has the rain scale,
\* whatever the type has been changed to since.
C8_RainKeepsRainScale ==
  \A i \in 1..Len(written) :
    born[written[i].slot].type = "rain" =>
      /\ written[i].scale.x = particles[written[i].slot].size * 8
      /\ written[i].scale.y = particles[written[i].slot].size * 600

\* C9: an emission event that finds a free slot makes the first free slot
\* active with the configured lifetime and size and a velocity straight
\* down, at speed under rain and at half of speed under snow, the type being
\* the one held when the event happens.
C9_EmissionFields ==
  [][(EmissionEvent /\ FreeSlots(particles) # {}) =>
       LET s == FirstFree(particles)
           p == particles'[s]
       IN  /\ p.active
           /\ p.life = config.lifetime
           /\ p.size = config.size
           /\ p.position \in EmitterPoints
           /\ p.velocity.x = 0
           /\ p.velocity.z = 0
           /\ config.type = "rain" => p.velocity.y = -config.speed
           /\ config.type = "snow" => 2 * p.velocity.y = -config.speed
           /\ \A t \in Slots \ {s} : particles'[t] = particles[t]]_vars

\* C9 witness: after a switch from rain to snow, a particle has just been
\* emitted at half the speed while a particle emitted as rain is still alive
C9_Witness ==
  /\ pc = "loop"
  /\ config.type = "snow"
  /\ \E s, t \in Slots :
       /\ particles[s].active
       /\ born[s].type = "snow"
       /\ born[s].age = 0
       /\ 2 * particles[s].velocity.y = -config.speed
       /\ particles[t].active
       /\ born[t].type = "rain"

\* C10: updateConfig(newConfig) sets the fields of newConfig to the values
\* given and leaves the other fields, the pool, the accumulator and the
\* instance count as they were.
C10_UpdateConfigMerges ==
  [][\A newConfig \in ShapePartials :
       UpdateConfig(newConfig) =>
         /\ \A f \in DOMAIN newConfig : config'[f] = newConfig[f]
         /\ \A f \in ConfigFields \ DOMAIN newConfig : config'[f] = config[f]
         /\ DOMAIN config' = ConfigFields
         /\ particles' = particles
         /\ accumulator' = accumulator
         /\ count' = count]_vars

\* C10 witness: between frames, with particles alive and a remainder in the
\* accumulator, the configuration holds fields that updateConfig changed
\* and fields it never touched
C10_Witness ==
  /\ pc = "idle"
  /\ config.type = "snow"
  /\ config.size # InitialConfig.size
  /\ config.speed # InitialConfig.speed
  /\ config.lifetime = InitialConfig.lifetime
  /\ config.windStrength = InitialConfig.windStrength
  /\ accumulator > 0
  /\ ActiveSlots(particles) # {}

\* C11: a call of updateConfig generates a texture once if its argument
\* holds a type other than the type held before, and not at all otherwise;
\* no step of update() generates one or touches the material.
C11_RegeneratesOnTypeChange ==
  [][/\ \A newConfig \in PanelPartials :
          UpdateConfig(newConfig) =>
            /\ regenerated' \in {0, 1}
            /\ regenerated' = 1 <=>
                 ("type" \in DOMAIN newConfig /\ newConfig.type # config.type)
            /\ regenerated' = 0 => material' = material
     /\ (pc # "idle" \/ pc' # "idle") =>
          (regenerated' = 0 /\ material' = material)]_vars

\* C11 witness: updateConfig has just regenerated the texture for rain
\* while particles are alive
C11_Witness ==
  /\ pc = "idle"
  /\ regenerated = 1
  /\ config.type = "rain"
  /\ material.map = "rainGradient"
  /\ ActiveSlots(particles) # {}

\* C12: the stored emissionRate and lifetime are never negative, and no
\* particle is emitted with a negative remaining life.
C12_NeverNegative ==
  /\ config.emissionRate >= 0
  /\ config.lifetime >= 0
  /\ \A s \in Slots : born[s].life >= 0

\* C13: whenever the caller can call it (construction done, no update in
\* progress), getCount() returns the number of active slots.
C13_GetCountIsActive ==
  pc = "idle" => getCount = ActiveCount(particles)

\* C14: the number of emission events of the first update after a clear
\* period is fixed by the accumulator the period began with, the dt of that
\* update and the interval in force; the number and the length of the clear
\* updates do not enter, so two runs differing only in the clear period emit
\* the same count.  The accumulator after it is fixed the same way.
C14_NoBurstAfterClear ==
  (calm.phase = "resumed" /\ pc = "particles") =>
    /\ frame.emitted = (calm.acc + dt) \div Interval(config)
    /\ accumulator = (calm.acc + dt) % Interval(config)

\* C14 witness: the first update after a clear period of several updates,
\* begun with time left in the accumulator, has emitted
C14_Witness ==
  /\ calm.phase = "resumed"
  /\ pc = "particles"
  /\ calm.time >= MaxCalm
  /\ calm.acc > 0
  /\ frame.emitted > 0

\* the slots a step activates
Activated == {s \in Slots : ~particles[s].active /\ particles'[s].active}

\* C15: an emission event that finds no free slot changes no particle and
\* still takes its interval off the accumulator; a slot is activated only by
\* an emission event, one slot per event, each event paid with one interval;
\* and the accumulator grows only by the dt of a beginning update, so no
\* dropped event is carried over to a later frame.
C15_DroppedNotRetried ==
  [][/\ (EmissionEvent /\ FreeSlots(particles) = {}) =>
          /\ particles' = particles
          /\ frame'.dropped = frame.dropped + 1
     /\ EmissionEvent => accumulator' = accumulator - Interval(config)
     /\ Activated # {} =>
          /\ EmissionEvent
          /\ Cardinality(Activated) = 1
          /\ frame'.dropped = frame.dropped
     /\ accumulator' > accumulator =>
          (pc = "idle" /\ pc' = "loop" /\ accumulator' = accumulator + dt')]_vars

\* C15 witness: an update has ended in which an event was dropped on a full
\* pool, and a slot freed by the same update stands empty
C15_Witness ==
  /\ pc = "idle"
  /\ frame.dropped > 0
  /\ FreeSlots(particles) # {}

\* C16, amended: in the scenario every drop is retired by the ground, with
\* life left, after between 62 and 86 hundredths of its lifetime, so the
\* active count settles at emission rate times time aloft, between 0.62 and
\* 0.86 of emissionRate * lifetime, and stays below it.
C16_DropsLandEarly ==
  \A s \in Slots :
    born[s].type = "rain" =>
      /\ born[s].age * 100 <= born[s].life * 86
      /\ ~particles[s].active =>
           /\ particles[s].position.y < 0
           /\ particles[s].life > 0
           /\ born[s].age * 100 >= born[s].life * 62

\* C16 witness: a drop of the scenario has been retired by the ground
C16_Witness ==
  /\ pc = "idle"
  /\ born[1].type = "rain"
  /\ config.gravity = FallConfig.gravity
  /\ ~particles[1].active
  /\ particles[1].position.y < 0
  /\ count = 0

\* C16 as stated: the count settles near emissionRate * lifetime, which takes
\* every drop to stay active for its lifetime, to within a tenth of it.
C16_DropsLastTheirLifetime ==
  \A s \in Slots :
    (born[s].type = "rain" /\ ~particles[s].active) =>
      born[s].age * 10 >= born[s].life * 9

\* C17: an update gives every particle it finds active the velocity
\* (windStrength, velocity.y + gravity * dt, velocity.z) and moves it by that
\* velocity times dt; so every particle active after an update moves
\* sideways at the windStrength in force, whatever it was before.
C17_WindOverrides ==
  [][UpdateReturns =>
       \A s \in Slots :
         /\ particles[s].active =>
              LET p == particles[s]
                  q == particles'[s]
              IN  /\ q.velocity.y = p.velocity.y + config.gravity * dt
                  /\ q.velocity.x = config.windStrength
                  /\ q.velocity.z = p.velocity.z
                  /\ q.position.x = p.position.x + q.velocity.x * dt
                  /\ q.position.y = p.position.y + q.velocity.y * dt
                  /\ q.position.z = p.position.z + q.velocity.z * dt
         /\ particles'[s].active =>
              particles'[s].velocity.x = config'.windStrength]_vars

\* C17 witness: a particle that drifted under a wind stands still sideways
\* after the update that followed the change of windStrength to 0
C17_Witness ==
  /\ pc = "idle"
  /\ config.windStrength = 0
  /\ \E s \in Slots :
       /\ particles[s].active
       /\ particles[s].position.x > 0
       /\ particles[s].velocity.x = 0

\* C18: the interval lies in (0, 1 s] whatever the emissionRate; the
\* accumulator is never negative, each emission event lowers it, the loop is
\* left, and once it is left under a non-clear type the accumulator is below
\* the interval.
C18_IntervalBoundsLoop ==
  /\ [](/\ Interval(config) \in 1..TicksPerSecond
        /\ accumulator >= 0
        /\ (pc = "particles" /\ config.type # "clear") =>
             accumulator < Interval(config))
  /\ [][EmissionEvent => accumulator' < accumulator]_vars
  /\ [][UpdateReturns => (config' = config /\ accumulator' = accumulator)]_vars
  /\ (pc = "loop" ~> pc = "particles")

\* C18 witness: under a negative emissionRate the loop has run and ended
C18_Witness ==
  /\ pc = "particles"
  /\ config.emissionRate < 0
  /\ frame.emitted > 0
  /\ accumulator < Interval(config)

\* C19: under a clear sky no step raises the number of active particles;
\* and if the sky stays clear for good while update keeps being called, the
\* pool drains: from some point on no particle is active and the instance
\* count is 0.
C19_ClearDrainsPool ==
  /\ [][config.type = "clear" =>
          ActiveCount(particles') <= ActiveCount(particles)]_vars
  /\ (<>[](config.type = "clear")
        => <>[](ActiveCount(particles) = 0 /\ count = 0))

\* C19 witness: the particles emitted under rain are all gone after an
\* update under a clear sky
C19_Witness ==
  /\ pc = "idle"
  /\ config.type = "clear"
  /\ frame.emitted = 0
  /\ \E s \in Slots : born[s].type = "rain" /\ born[s].age > 1
  /\ ActiveCount(particles) = 0
  /\ count = 0

====
